---- MODULE Spec2Model ----
(***************************************************************************)
(* Model of esp32/CommonGround.ino: setup(), loop() and the fireChanged    *)
(* callback, with the DHT sensor, the Adafruit IO channel, the HTTP client *)
(* and the JSON document as nondeterministic environments.                 *)
(***************************************************************************)
EXTENDS Integers, Sequences, FiniteSets, TLC

\* ---------- bounds of the model ----------
MaxFire == 2          \* fire-feed updates the server sends in one run
MaxIter == 2          \* loop() iterations explored
MaxLen  == 2          \* longest hourly.relativehumidity_2m array

\* ---------- program constants ----------
BUZZER_FREQ   == 2000   \* tone(BUZZER_PIN, 2000)
HTTP_OK       == 200    \* httpCode == 200
AIO_CONNECTED == 2      \* threshold of io.status() < AIO_CONNECTED
DELAY_MS      == 10000  \* delay(10000)
CONNECT_POLL_MS == 500  \* delay(500)

\* ---------- floats: a number or NaN ----------
Num(n)   == [nan |-> FALSE, v |-> n]
NAN      == [nan |-> TRUE, v |-> 0]
isnan(x) == x.nan

\* ---------- environment value sets ----------
StatusValues == 0..2                      \* io.status(): below or at AIO_CONNECTED
FirePayloads == {"0", "1", "true"}        \* raw values of the fire feed
SensorTemps  == {NAN, Num(22)}            \* dht.readTemperature()
SensorHums   == {NAN, Num(45)}            \* dht.readHumidity()
HttpCodes    == {200, 404, -1}            \* http.GET()
JsonTemps    == {18}
JsonHums     == {41, 55}
SeqsUpTo(S, n) == UNION {[1..k -> S] : k \in 0..n}
\* a response body: not JSON at all, or a document with optional members
Documents == [temperature : {<<>>} \cup {<<t>> : t \in JsonTemps},
              hasHumidity : BOOLEAN,
              relativehumidity_2m : SeqsUpTo(JsonHums, MaxLen)]
Payloads  == {[json |-> FALSE, doc |-> [temperature |-> <<>>, hasHumidity |-> FALSE,
                                        relativehumidity_2m |-> <<>>]]}
             \cup {[json |-> TRUE, doc |-> d] : d \in
                     {x \in Documents : x.hasHumidity \/ x.relativehumidity_2m = <<>>}}

Latencies    == {0, 3000}                 \* ms the weather request may take
\* lines 25-26, 29-30: the feeds loop() saves to
DataFeeds    == {"temperature", "humidity", "api_temp", "api_humidity"}
\* what the server means by an update of the fire feed
Truth(v)     == v \in {"1", "true"}

\* ---------- library conversions ----------
\* AdafruitIO_Data::toBool()
toBool(v) == v \in {"1", "true"}
\* a slip that swaps the two published values
AlarmValue_swapped(b) == IF b THEN 0 ELSE 1

\* fireDetected ? 1 : 0
AlarmValue(b) == IF b THEN 1 ELSE 0
\* float apiTemp = doc["current_weather"]["temperature"]; a missing member reads as 0
JsonAsFloat(member) == IF member = <<>> THEN Num(0) ELSE Num(member[1])
\* a slip that takes the first element
LastIndex_first(arr) == 1

\* line 99: humidityArray.size() - 1, as a 1-based index
LastIndex(arr) == Len(arr)

\* lines 96-100: last element of the array, NaN when the array is null or empty
ExtractHumidity(doc) ==
  IF doc.hasHumidity /\ Len(doc.relativehumidity_2m) > 0
  THEN Num(doc.relativehumidity_2m[LastIndex(doc.relativehumidity_2m)])
  ELSE NAN

\* how many of the saves of one step go to a feed
SavesTo(saves, feed) == Len(SelectSeq(saves, LAMBDA e : e[1] = feed))

\* a fixed-rate loop: the sleep is what is left of the period
SleepFor_fixedRate(spent) == IF spent < DELAY_MS THEN DELAY_MS - spent ELSE 0

\* line 114: delay(10000), whatever the body took
SleepFor(spent) == DELAY_MS

VARIABLES
  pc,            \* position of setup()/loop()
  cbpc,          \* position inside fireChanged: "idle" when it is not executing
  status,        \* io.status()
  registered,    \* fireFeed->onMessage(fireChanged) done
  fireQueue,     \* fire-feed updates received and not yet delivered
  arrived,       \* number of fire-feed updates received so far
  delivered,     \* number of fireChanged invocations so far
  data,          \* raw value handed to the latest fireChanged invocation
  fireDetected,  \* the global flag
  buzzer,        \* frequency on BUZZER_PIN, 0 when silent
  drives,        \* number of tone()/noTone() calls so far
  alarmLog,      \* values saved to the alarm feed, oldest first
  fireLog,       \* "ON"/"OFF" lines printed by fireChanged
  iter,          \* loop() iterations started
  pumps,         \* io.run() calls of the current iteration
  temp, hum,     \* locals of loop()
  reads,         \* sensor read rounds of the current iteration
  httpOpen,      \* the HTTPClient holds a connection
  httpCode,      \* result of http.GET()
  gets,          \* GET requests of the current iteration
  payload,       \* http.getString()
  pubs,          \* <<feed, value>> saved by loop() in the current iteration
  log,           \* lines printed by loop() in the current iteration
  sentLog,       \* truth value of every fire-feed update the server sent, oldest first
  steps,         \* steps of loop() since the latest iteration began
  elapsed,       \* ms since the latest iteration began
  bodyMs,        \* ms of them spent before the sleep
  tempLead,      \* saves made so far to temperature minus those made to humidity
  apiLead        \* saves made so far to api_temp minus those made to api_humidity

alarmVars == <<fireDetected, buzzer, drives, alarmLog, fireLog, delivered, data>>
iterVars  == <<temp, hum, reads, httpOpen, httpCode, gets, payload, pubs, log>>
vars == <<pc, cbpc, status, registered, fireQueue, arrived, delivered, data, fireDetected,
          buzzer, drives, alarmLog, fireLog, iter, pumps, temp, hum, reads, httpOpen,
          httpCode, gets, payload, pubs, log, sentLog, steps, elapsed, bodyMs, tempLead, apiLead>>

NoPayload == [json |-> FALSE, doc |-> [temperature |-> <<>>, hasHumidity |-> FALSE,
                                       relativehumidity_2m |-> <<>>]]

Init ==
  /\ pc = "connect"
  /\ cbpc = "idle"
  /\ status = 0
  /\ registered = FALSE
  /\ fireQueue = <<>>
  /\ arrived = 0
  /\ delivered = 0
  /\ data = ""
  /\ fireDetected = FALSE
  /\ buzzer = 0
  /\ drives = 0
  /\ alarmLog = <<>>
  /\ fireLog = <<>>
  /\ iter = 0
  /\ pumps = 0
  /\ temp = NAN
  /\ hum = NAN
  /\ reads = 0
  /\ httpOpen = FALSE
  /\ httpCode = 0
  /\ gets = 0
  /\ payload = NoPayload
  /\ pubs = <<>>
  /\ log = <<>>
  /\ sentLog = <<>>
  /\ steps = <<>>
  /\ elapsed = 0
  /\ bodyMs = 0
  /\ tempLead = 0
  /\ apiLead = 0

\* ---------- environment ----------
\* the session's status moves while setup() waits
StatusChange ==
  /\ pc \in {"wait", "poll"}
  /\ \E s \in StatusValues : s # status /\ status' = s
  /\ UNCHANGED <<pc, cbpc, registered, fireQueue, arrived, iter, pumps>>
  /\ UNCHANGED alarmVars
  /\ UNCHANGED iterVars
  /\ UNCHANGED <<sentLog, steps, elapsed, bodyMs, tempLead, apiLead>>

\* the server sends an update of the fire feed
FireArrive ==
  /\ status >= AIO_CONNECTED
  /\ arrived < MaxFire
  /\ \E v \in FirePayloads :
       /\ fireQueue' = Append(fireQueue, v)
       /\ sentLog' = Append(sentLog, Truth(v))
  /\ arrived' = arrived + 1
  /\ UNCHANGED <<pc, cbpc, status, registered, iter, pumps>>
  /\ UNCHANGED alarmVars
  /\ UNCHANGED iterVars
  /\ UNCHANGED <<steps, elapsed, bodyMs, tempLead, apiLead>>

\* ---------- setup() ----------
\* lines 53-59
Connect ==
  /\ pc = "connect"
  /\ pc' = "wait"
  /\ UNCHANGED <<cbpc, status, registered, fireQueue, arrived, iter, pumps>>
  /\ UNCHANGED alarmVars
  /\ UNCHANGED iterVars
  /\ UNCHANGED <<sentLog, steps, elapsed, bodyMs, tempLead, apiLead>>

\* a setup() that registers the handler without waiting for the session
Register_nowait ==
  /\ pc = "wait"
  /\ registered' = TRUE
  /\ pc' = "run"
  /\ UNCHANGED <<cbpc, status, fireQueue, arrived, iter, pumps>>
  /\ UNCHANGED alarmVars
  /\ UNCHANGED iterVars
  /\ UNCHANGED <<sentLog, steps, elapsed, bodyMs, tempLead, apiLead>>

\* lines 60-65: the wait loop ends once the status is connected
Register ==
  /\ pc = "wait"
  /\ ~(status < AIO_CONNECTED)
  /\ registered' = TRUE
  /\ pc' = "run"
  /\ UNCHANGED <<cbpc, status, fireQueue, arrived, iter, pumps>>
  /\ UNCHANGED alarmVars
  /\ UNCHANGED iterVars
  /\ UNCHANGED <<sentLog, steps, elapsed, bodyMs, tempLead, apiLead>>

\* lines 60-63: the status is below connected, a "." is printed and the
\* loop sleeps 500 ms
WaitPoll ==
  /\ pc = "wait"
  /\ status < AIO_CONNECTED
  /\ pc' = "poll"
  /\ UNCHANGED <<cbpc, status, registered, fireQueue, arrived, iter, pumps>>
  /\ UNCHANGED alarmVars
  /\ UNCHANGED iterVars
  /\ UNCHANGED <<sentLog, steps, elapsed, bodyMs, tempLead, apiLead>>

\* line 62: delay(500) is over, back to the test of line 60
WaitRetry ==
  /\ pc = "poll"
  /\ pc' = "wait"
  /\ UNCHANGED <<cbpc, status, registered, fireQueue, arrived, iter, pumps>>
  /\ UNCHANGED alarmVars
  /\ UNCHANGED iterVars
  /\ UNCHANGED <<sentLog, steps, elapsed, bodyMs, tempLead, apiLead>>

\* ---------- fireChanged ----------
\* lines 39-41: the flag takes the delivered value and the change is printed
CallbackEnter(d) ==
  /\ data' = d
  /\ fireDetected' = toBool(d)
  /\ fireLog' = Append(fireLog, IF toBool(d) THEN "ON" ELSE "OFF")
  /\ delivered' = delivered + 1
  /\ cbpc' = "save"

\* line 43: alarmFeed->save(fireDetected ? 1 : 0)
CallbackSave ==
  /\ cbpc = "save"
  /\ alarmLog' = Append(alarmLog, AlarmValue(fireDetected))
  /\ cbpc' = "tone"
  /\ UNCHANGED <<pc, status, registered, fireQueue, arrived, iter, pumps>>
  /\ UNCHANGED <<fireDetected, buzzer, drives, fireLog, delivered, data>>
  /\ UNCHANGED iterVars
  /\ UNCHANGED <<sentLog, steps, elapsed, bodyMs, tempLead, apiLead>>

\* a slip that swaps the two branches
DriveBuzzer_inverted(flag) == IF flag THEN 0 ELSE BUZZER_FREQ

\* lines 45-49: tone(BUZZER_PIN, 2000) or noTone(BUZZER_PIN)
DriveBuzzer(flag) == IF flag THEN BUZZER_FREQ ELSE 0

\* a handler that drives the pin only when the level changes
CallbackTone_dedup ==
  /\ cbpc = "tone"
  /\ buzzer' = (IF fireDetected THEN BUZZER_FREQ ELSE 0)
  /\ drives' = drives + (IF buzzer' # buzzer THEN 1 ELSE 0)
  /\ cbpc' = "idle"
  /\ UNCHANGED <<pc, status, registered, fireQueue, arrived, iter, pumps>>
  /\ UNCHANGED <<fireDetected, alarmLog, fireLog, delivered, data>>
  /\ UNCHANGED iterVars
  /\ UNCHANGED <<sentLog, steps, elapsed, bodyMs, tempLead, apiLead>>

CallbackTone ==
  /\ cbpc = "tone"
  /\ buzzer' = DriveBuzzer(fireDetected)
  /\ drives' = drives + 1
  /\ cbpc' = "idle"
  /\ UNCHANGED <<pc, status, registered, fireQueue, arrived, iter, pumps>>
  /\ UNCHANGED <<fireDetected, alarmLog, fireLog, delivered, data>>
  /\ UNCHANGED iterVars
  /\ UNCHANGED <<sentLog, steps, elapsed, bodyMs, tempLead, apiLead>>

\* ---------- loop() ----------
\* line 69: io.run() is entered
RunBegin ==
  /\ pc = "run"
  /\ iter < MaxIter
  /\ iter' = iter + 1
  /\ pumps' = pumps + 1
  /\ pc' = "pump"
  /\ UNCHANGED <<cbpc, status, registered, fireQueue, arrived>>
  /\ UNCHANGED alarmVars
  /\ UNCHANGED iterVars
  /\ steps' = <<"pump">>
  /\ elapsed' = 0
  /\ bodyMs' = 0
  /\ UNCHANGED <<sentLog, tempLead, apiLead>>

\* a channel that calls the handler from anywhere in the loop body
Deliver_preempting ==
  /\ pc \in {"pump", "read", "sensed", "http", "response", "parsed", "end", "delay"}
  /\ cbpc = "idle"
  /\ registered
  /\ fireQueue # <<>>
  /\ CallbackEnter(Head(fireQueue))
  /\ fireQueue' = Tail(fireQueue)
  /\ UNCHANGED <<pc, status, registered, arrived, iter, pumps>>
  /\ UNCHANGED <<buzzer, drives, alarmLog>>
  /\ UNCHANGED iterVars
  /\ UNCHANGED <<sentLog, steps, elapsed, bodyMs, tempLead, apiLead>>

\* a channel that hands over the newest queued update first
Deliver_lifo ==
  /\ pc = "pump"
  /\ cbpc = "idle"
  /\ registered
  /\ fireQueue # <<>>
  /\ CallbackEnter(fireQueue[Len(fireQueue)])
  /\ fireQueue' = SubSeq(fireQueue, 1, Len(fireQueue) - 1)
  /\ UNCHANGED <<pc, status, registered, arrived, iter, pumps>>
  /\ UNCHANGED <<buzzer, drives, alarmLog>>
  /\ UNCHANGED iterVars
  /\ UNCHANGED <<sentLog, steps, elapsed, bodyMs, tempLead, apiLead>>

\* line 69: inside io.run() the oldest queued update is handed to the handler
Deliver ==
  /\ pc = "pump"
  /\ cbpc = "idle"
  /\ registered
  /\ fireQueue # <<>>
  /\ CallbackEnter(Head(fireQueue))
  /\ fireQueue' = Tail(fireQueue)
  /\ UNCHANGED <<pc, status, registered, arrived, iter, pumps>>
  /\ UNCHANGED <<buzzer, drives, alarmLog>>
  /\ UNCHANGED iterVars
  /\ UNCHANGED <<sentLog, steps, elapsed, bodyMs, tempLead, apiLead>>

\* a pump that may return while updates are still queued
RunEnd_early ==
  /\ pc = "pump"
  /\ cbpc = "idle"
  /\ pc' = "read"
  /\ UNCHANGED <<cbpc, status, registered, fireQueue, arrived, iter, pumps>>
  /\ UNCHANGED alarmVars
  /\ UNCHANGED iterVars
  /\ UNCHANGED <<sentLog, steps, elapsed, bodyMs, tempLead, apiLead>>

\* line 69: io.run() returns once the queue is drained
RunEnd ==
  /\ pc = "pump"
  /\ cbpc = "idle"
  /\ fireQueue = <<>>
  /\ pc' = "read"
  /\ UNCHANGED <<cbpc, status, registered, fireQueue, arrived, iter, pumps>>
  /\ UNCHANGED alarmVars
  /\ UNCHANGED iterVars
  /\ UNCHANGED <<sentLog, steps, elapsed, bodyMs, tempLead, apiLead>>

\* lines 72-73: one read of the temperature and one of the humidity
ReadSensor ==
  /\ pc = "read"
  /\ \E t \in SensorTemps, h \in SensorHums : temp' = t /\ hum' = h
  /\ reads' = reads + 1
  /\ pc' = "sensed"
  /\ UNCHANGED <<cbpc, status, registered, fireQueue, arrived, iter, pumps>>
  /\ UNCHANGED alarmVars
  /\ UNCHANGED <<httpOpen, httpCode, gets, payload, pubs, log>>
  /\ steps' = Append(steps, "read")
  /\ UNCHANGED <<sentLog, elapsed, bodyMs, tempLead, apiLead>>

\* a slip that accepts a sample when either value is a number
SampleValid_either(t, h) == ~isnan(t) \/ ~isnan(h)

\* line 75
SampleValid(t, h) == ~isnan(t) /\ ~isnan(h)

\* a slip that forgets the second save
SampleSaves_tempOnly(t, h) == << <<"temperature", t>> >>

\* lines 77-78: the two saves of a valid sample
SampleSaves(t, h) == << <<"temperature", t>>, <<"humidity", h>> >>

\* lines 75-78: both values are numbers, both are saved
PublishSample ==
  /\ pc = "sensed"
  /\ SampleValid(temp, hum)
  /\ log' = Append(log, <<"Local DHT11", temp, hum>>)
  /\ pubs' = pubs \o SampleSaves(temp, hum)
  /\ pc' = "http"
  /\ UNCHANGED <<cbpc, status, registered, fireQueue, arrived, iter, pumps>>
  /\ UNCHANGED alarmVars
  /\ UNCHANGED <<temp, hum, reads, httpOpen, httpCode, gets, payload>>
  /\ tempLead' = tempLead + SavesTo(SampleSaves(temp, hum), "temperature")
                          - SavesTo(SampleSaves(temp, hum), "humidity")
  /\ UNCHANGED apiLead
  /\ UNCHANGED <<sentLog, steps, elapsed, bodyMs>>

\* a loop() that fetches the weather only after a good sensor read
SensorFailed_skipFetch ==
  /\ pc = "sensed"
  /\ ~(~isnan(temp) /\ ~isnan(hum))
  /\ log' = Append(log, <<"Failed to read from DHT sensor!">>)
  /\ pc' = "delay"
  /\ UNCHANGED <<cbpc, status, registered, fireQueue, arrived, iter, pumps>>
  /\ UNCHANGED alarmVars
  /\ UNCHANGED <<temp, hum, reads, httpOpen, httpCode, gets, payload, pubs>>
  /\ UNCHANGED <<sentLog, steps, elapsed, bodyMs, tempLead, apiLead>>

\* lines 79-81
SensorFailed ==
  /\ pc = "sensed"
  /\ ~SampleValid(temp, hum)
  /\ log' = Append(log, <<"Failed to read from DHT sensor!">>)
  /\ pc' = "http"
  /\ UNCHANGED <<cbpc, status, registered, fireQueue, arrived, iter, pumps>>
  /\ UNCHANGED alarmVars
  /\ UNCHANGED <<temp, hum, reads, httpOpen, httpCode, gets, payload, pubs>>
  /\ UNCHANGED <<sentLog, steps, elapsed, bodyMs, tempLead, apiLead>>

\* lines 84-86: http.begin(weatherURL); httpCode = http.GET()
HttpGet ==
  /\ pc = "http"
  /\ httpOpen' = TRUE
  /\ \E c \in HttpCodes : httpCode' = c
  /\ gets' = gets + 1
  /\ pc' = "response"
  /\ UNCHANGED <<cbpc, status, registered, fireQueue, arrived, iter, pumps>>
  /\ UNCHANGED alarmVars
  /\ UNCHANGED <<temp, hum, reads, payload, pubs, log>>
  /\ steps' = Append(steps, "fetch")
  /\ \E ms \in Latencies : elapsed' = elapsed + ms /\ bodyMs' = bodyMs + ms
  /\ UNCHANGED <<sentLog, tempLead, apiLead>>

\* a slip that accepts every positive status
StatusOk_positive(code) == code > 0

\* line 88
StatusOk(code) == code = HTTP_OK

\* lines 89-91: the body is read and handed to deserializeJson
ReadBody ==
  /\ pc = "response"
  /\ StatusOk(httpCode)
  /\ \E p \in Payloads : payload' = p
  /\ pc' = "parsed"
  /\ UNCHANGED <<cbpc, status, registered, fireQueue, arrived, iter, pumps>>
  /\ UNCHANGED alarmVars
  /\ UNCHANGED <<temp, hum, reads, httpOpen, httpCode, gets, pubs, log>>
  /\ UNCHANGED <<sentLog, steps, elapsed, bodyMs, tempLead, apiLead>>

\* a slip that ignores the parse result
ParseError_ignored(p) == FALSE

\* line 91: DeserializationError error
ParseError(p) == ~p.json

\* a single combined validity flag for both values
ApiSaves_combined(apiTemp, apiHum) ==
  IF ~isnan(apiHum) THEN << <<"api_temp", apiTemp>>, <<"api_humidity", apiHum>> >> ELSE <<>>

\* lines 102-104: the temperature is saved, the humidity only when it is a number
ApiSaves(apiTemp, apiHum) ==
  << <<"api_temp", apiTemp>> >> \o
  (IF ~isnan(apiHum) THEN << <<"api_humidity", apiHum>> >> ELSE <<>>)

\* lines 93-104
PublishWeather ==
  /\ pc = "parsed"
  /\ ~ParseError(payload)
  /\ LET apiTemp == JsonAsFloat(payload.doc.temperature)
         apiHum  == ExtractHumidity(payload.doc)
     IN /\ log' = Append(log, <<"API Weather", apiTemp, apiHum>>)
        /\ pubs' = pubs \o ApiSaves(apiTemp, apiHum)
        /\ apiLead' = apiLead + SavesTo(ApiSaves(apiTemp, apiHum), "api_temp")
                              - SavesTo(ApiSaves(apiTemp, apiHum), "api_humidity")
        /\ UNCHANGED tempLead
  /\ pc' = "end"
  /\ UNCHANGED <<cbpc, status, registered, fireQueue, arrived, iter, pumps>>
  /\ UNCHANGED alarmVars
  /\ UNCHANGED <<temp, hum, reads, httpOpen, httpCode, gets, payload>>
  /\ UNCHANGED <<sentLog, steps, elapsed, bodyMs>>

\* a loop() whose http.end() sits in the success branch only
JsonParseError_noend ==
  /\ pc = "parsed"
  /\ ~payload.json
  /\ log' = Append(log, <<"JSON parse error">>)
  /\ pc' = "delay"
  /\ UNCHANGED <<cbpc, status, registered, fireQueue, arrived, iter, pumps>>
  /\ UNCHANGED alarmVars
  /\ UNCHANGED <<temp, hum, reads, httpOpen, httpCode, gets, payload, pubs>>
  /\ UNCHANGED <<sentLog, steps, elapsed, bodyMs, tempLead, apiLead>>

\* lines 105-107
JsonParseError ==
  /\ pc = "parsed"
  /\ ParseError(payload)
  /\ log' = Append(log, <<"JSON parse error">>)
  /\ pc' = "end"
  /\ UNCHANGED <<cbpc, status, registered, fireQueue, arrived, iter, pumps>>
  /\ UNCHANGED alarmVars
  /\ UNCHANGED <<temp, hum, reads, httpOpen, httpCode, gets, payload, pubs>>
  /\ UNCHANGED <<sentLog, steps, elapsed, bodyMs, tempLead, apiLead>>

\* a loop() that returns at once when the fetch fails, without the sleep
FetchFailed_return ==
  /\ pc = "response"
  /\ httpCode # HTTP_OK
  /\ log' = Append(log, <<"Failed to fetch weather, code", httpCode>>)
  /\ pc' = "run"
  /\ UNCHANGED <<cbpc, status, registered, fireQueue, arrived, iter, pumps>>
  /\ UNCHANGED alarmVars
  /\ UNCHANGED <<temp, hum, reads, httpOpen, httpCode, gets, payload, pubs>>
  /\ UNCHANGED <<sentLog, steps, elapsed, bodyMs, tempLead, apiLead>>

\* lines 108-110
FetchFailed ==
  /\ pc = "response"
  /\ ~StatusOk(httpCode)
  /\ log' = Append(log, <<"Failed to fetch weather, code", httpCode>>)
  /\ pc' = "end"
  /\ UNCHANGED <<cbpc, status, registered, fireQueue, arrived, iter, pumps>>
  /\ UNCHANGED alarmVars
  /\ UNCHANGED <<temp, hum, reads, httpOpen, httpCode, gets, payload, pubs>>
  /\ UNCHANGED <<sentLog, steps, elapsed, bodyMs, tempLead, apiLead>>

\* line 112: http.end()
HttpEnd ==
  /\ pc = "end"
  /\ httpOpen' = FALSE
  /\ pc' = "delay"
  /\ UNCHANGED <<cbpc, status, registered, fireQueue, arrived, iter, pumps>>
  /\ UNCHANGED alarmVars
  /\ UNCHANGED <<temp, hum, reads, httpCode, gets, payload, pubs, log>>
  /\ UNCHANGED <<sentLog, steps, elapsed, bodyMs, tempLead, apiLead>>

\* a loop() that saves the alarm state again at the end of every iteration
Delay_resync ==
  /\ pc = "delay"
  /\ pc' = "run"
  /\ pumps' = 0
  /\ temp' = NAN /\ hum' = NAN /\ reads' = 0
  /\ httpOpen' = httpOpen /\ httpCode' = 0 /\ gets' = 0
  /\ payload' = NoPayload /\ pubs' = <<>> /\ log' = <<>>
  /\ alarmLog' = Append(alarmLog, IF fireDetected THEN 1 ELSE 0)
  /\ UNCHANGED <<cbpc, status, registered, fireQueue, arrived, iter>>
  /\ UNCHANGED <<fireDetected, buzzer, drives, fireLog, delivered, data>>
  /\ steps' = Append(steps, "sleep")
  /\ elapsed' = elapsed + DELAY_MS
  /\ UNCHANGED <<sentLog, bodyMs, tempLead, apiLead>>

\* lines 114-115: delay(10000), loop() returns and its locals and the
\* records of the iteration are gone
Delay ==
  /\ pc = "delay"
  /\ pc' = "run"
  /\ pumps' = 0
  /\ temp' = NAN /\ hum' = NAN /\ reads' = 0
  /\ httpOpen' = httpOpen /\ httpCode' = 0 /\ gets' = 0
  /\ payload' = NoPayload /\ pubs' = <<>> /\ log' = <<>>
  /\ UNCHANGED <<cbpc, status, registered, fireQueue, arrived, iter>>
  /\ UNCHANGED alarmVars
  /\ steps' = Append(steps, "sleep")
  /\ elapsed' = elapsed + SleepFor(elapsed)
  /\ UNCHANGED <<sentLog, bodyMs, tempLead, apiLead>>

Next ==
  \/ StatusChange
  \/ FireArrive
  \/ Connect
  \/ WaitPoll
  \/ WaitRetry
  \/ Register
  \/ RunBegin
  \/ Deliver
  \/ CallbackSave
  \/ CallbackTone
  \/ RunEnd
  \/ ReadSensor
  \/ PublishSample
  \/ SensorFailed
  \/ HttpGet
  \/ ReadBody
  \/ PublishWeather
  \/ JsonParseError
  \/ FetchFailed
  \/ HttpEnd
  \/ Delay

Spec == Init /\ [][Next]_vars

\* the single task keeps executing: whichever statement of setup(), loop() or
\* fireChanged is next is eventually executed (the sensor read and the HTTP
\* call return); the server and the session status are under no obligation
ProgramStep ==
  \/ Connect \/ WaitPoll \/ WaitRetry \/ Register
  \/ RunBegin \/ Deliver \/ CallbackSave \/ CallbackTone \/ RunEnd
  \/ ReadSensor \/ PublishSample \/ SensorFailed
  \/ HttpGet \/ ReadBody \/ PublishWeather \/ JsonParseError \/ FetchFailed
  \/ HttpEnd \/ Delay

FairSpec == Spec /\ WF_vars(ProgramStep)

TypeOK ==
  /\ pc \in {"connect", "wait", "poll", "run", "pump", "read", "sensed", "http", "response",
             "parsed", "end", "delay"}
  /\ cbpc \in {"idle", "save", "tone"}
  /\ status \in StatusValues
  /\ Len(fireQueue) <= MaxFire
  /\ buzzer \in {0, BUZZER_FREQ}

\* ---------- observations used by the properties ----------
CallbackIdle == cbpc = "idle"
FeedSaves(feed) == SelectSeq(pubs, LAMBDA e : e[1] = feed)
Last(seq) == seq[Len(seq)]
BodyDone == pc \in {"end", "delay"}
ParsedOk == httpCode = 200 /\ payload.json

\* C1: whenever fireChanged is not executing, the value last published to the
\* alarm feed is 1 if fireDetected is true and 0 if it is false; before the
\* first delivery nothing has been published to the alarm feed.
C1_AlarmFeedIsCastOfFlag ==
  /\ delivered = 0 => alarmLog = <<>>
  /\ (CallbackIdle /\ delivered > 0) =>
        /\ alarmLog # <<>>
        /\ Last(alarmLog) = (IF fireDetected THEN 1 ELSE 0)

C1_Witness ==
  /\ CallbackIdle
  /\ pc = "delay"
  /\ Len(alarmLog) >= 2
  /\ alarmLog[1] = 1
  /\ Last(alarmLog) = 0
  /\ ~fireDetected

\* C2: every delivered fire-feed update causes exactly one alarm-feed publish
\* and exactly one actuator drive, also when the value repeats: outside the
\* callback both counts equal the number of updates delivered.
C2_OnePublishOneDrivePerDelivery ==
  CallbackIdle =>
    /\ Len(alarmLog) = arrived - Len(fireQueue)
    /\ drives = arrived - Len(fireQueue)
    /\ delivered = arrived - Len(fireQueue)

C2_Witness ==
  /\ CallbackIdle
  /\ arrived = MaxFire
  /\ fireQueue = <<>>
  /\ Len(alarmLog) = MaxFire
  /\ drives = MaxFire
  /\ alarmLog[1] = 1
  /\ alarmLog[2] = 1

\* C3: outside the callback the buzzer sounds at 2000 Hz exactly when
\* fireDetected is true and is silent otherwise; after a delivery of a true
\* value it is on and 1 was published, after a delivery of a false value it is
\* off and 0 was published, and before any delivery it is off.
C3_BuzzerMirrorsFlag ==
  CallbackIdle =>
    /\ buzzer = (IF fireDetected THEN 2000 ELSE 0)
    /\ delivered = 0 => (buzzer = 0 /\ ~fireDetected)
    /\ (delivered > 0 /\ data \in {"1", "true"}) => (buzzer = 2000 /\ Last(alarmLog) = 1)
    /\ (delivered > 0 /\ data \in {"0", "false"}) => (buzzer = 0 /\ Last(alarmLog) = 0)

C3_Witness ==
  /\ CallbackIdle
  /\ delivered >= 2
  /\ data = "true"
  /\ buzzer = 2000
  /\ fireLog[1] = "OFF"

\* C4: in an iteration whose sensor read gave NaN for the temperature or for
\* the humidity, nothing is saved to the temperature feed nor to the humidity
\* feed, and the sensor is read once only.
C4_NoSavesOnSensorNaN ==
  (reads >= 1 /\ (temp.nan \/ hum.nan)) =>
    /\ FeedSaves("temperature") = <<>>
    /\ FeedSaves("humidity") = <<>>
    /\ reads = 1

C4_Witness ==
  /\ pc = "delay"
  /\ reads = 1
  /\ ~temp.nan
  /\ hum.nan
  /\ FeedSaves("api_temp") # <<>>

\* C5: in an iteration whose GET returned a status other than 200, nothing is
\* saved to api_temp nor to api_humidity, the status code is printed, and the
\* request is made once only.
C5_NoSavesOnHttpFailure ==
  (gets >= 1 /\ httpCode # 200) =>
    /\ FeedSaves("api_temp") = <<>>
    /\ FeedSaves("api_humidity") = <<>>
    /\ gets = 1
    /\ BodyDone => (log # <<>> /\ Last(log) = <<"Failed to fetch weather, code", httpCode>>)

C5_Witness ==
  /\ pc = "delay"
  /\ gets = 1
  /\ httpCode = 404
  /\ Last(log) = <<"Failed to fetch weather, code", 404>>
  /\ FeedSaves("temperature") # <<>>

\* C6: in an iteration whose GET returned 200 with a body that is not JSON,
\* nothing is saved to api_temp nor to api_humidity, a parse error is printed,
\* and the request is made once only.
C6_NoSavesOnParseError ==
  (gets >= 1 /\ httpCode = 200 /\ pc \in {"parsed", "end", "delay"} /\ ~payload.json) =>
    /\ FeedSaves("api_temp") = <<>>
    /\ FeedSaves("api_humidity") = <<>>
    /\ gets = 1
    /\ BodyDone => (log # <<>> /\ Last(log) = <<"JSON parse error">>)

C6_Witness ==
  /\ pc = "delay"
  /\ httpCode = 200
  /\ ~payload.json
  /\ Last(log) = <<"JSON parse error">>

\* C7: for a parsed response whose hourly.relativehumidity_2m array is empty
\* or absent, the parsed temperature is saved to api_temp and nothing is
\* saved to api_humidity.
C7_TemperatureIndependentOfHumidity ==
  (BodyDone /\ ParsedOk /\ payload.doc.temperature # <<>>
     /\ (~payload.doc.hasHumidity \/ payload.doc.relativehumidity_2m = <<>>)) =>
    /\ FeedSaves("api_temp") = << <<"api_temp", Num(payload.doc.temperature[1])>> >>
    /\ FeedSaves("api_humidity") = <<>>

C7_Witness ==
  /\ pc = "delay"
  /\ ParsedOk
  /\ payload.doc.hasHumidity
  /\ payload.doc.relativehumidity_2m = <<>>
  /\ FeedSaves("api_temp") = << <<"api_temp", Num(18)>> >>
  /\ FeedSaves("api_humidity") = <<>>

\* C8: for a parsed response whose hourly.relativehumidity_2m array is not
\* empty, the value saved to api_humidity is the last element of the array.
C8_HumidityIsLastElement ==
  (BodyDone /\ ParsedOk /\ payload.doc.hasHumidity
     /\ Len(payload.doc.relativehumidity_2m) >= 1) =>
    FeedSaves("api_humidity") =
      << <<"api_humidity",
           Num(payload.doc.relativehumidity_2m[Len(payload.doc.relativehumidity_2m)])>> >>

C8_Witness ==
  /\ pc = "delay"
  /\ ParsedOk
  /\ payload.doc.relativehumidity_2m = <<55, 41>>
  /\ FeedSaves("api_humidity") = << <<"api_humidity", Num(41)>> >>

\* C9: a parsed response that has no current_weather.temperature value causes
\* no save to api_temp in that iteration.
C9_NoTemperatureSaveWhenAbsent ==
  (BodyDone /\ ParsedOk /\ payload.doc.temperature = <<>>) =>
    FeedSaves("api_temp") = <<>>

\* C10: fireChanged runs only inside io.run(): it is executing only while the
\* loop is in its pump step, and every step taken outside the pump step leaves
\* the delivery count, the flag, the buzzer and the alarm feed as they were,
\* so an update that arrives after the pump waits for the next one.
C10_CallbackOnlyInsidePump ==
  [][ /\ (cbpc # "idle" \/ cbpc' # "idle") => (pc = "pump" /\ pc' = "pump")
      /\ (pc # "pump" \/ pc' # "pump") =>
            UNCHANGED <<delivered, data, fireDetected, buzzer, drives, alarmLog, cbpc>>
    ]_vars

C10_Witness ==
  /\ pc \in {"sensed", "response", "delay"}
  /\ fireQueue # <<>>
  /\ delivered >= 1
  /\ CallbackIdle

InStartup == pc \in {"connect", "wait", "poll"}
NothingDoneYet ==
  /\ ~registered
  /\ iter = 0 /\ pumps = 0 /\ reads = 0 /\ gets = 0
  /\ pubs = <<>> /\ alarmLog = <<>>
  /\ delivered = 0 /\ drives = 0

\* C11: setup() does not go on until the session is connected: while it is in
\* its startup wait nothing has been read, fetched, published, registered or
\* delivered; a step taken in startup with the status below connected stays in
\* startup; and if the status settles at connected, the handler gets
\* registered and the first loop iteration starts.
C11_StartupBlocksUntilConnected ==
  /\ [](InStartup => NothingDoneYet)
  /\ [][(InStartup /\ status < AIO_CONNECTED) => (InStartup' /\ NothingDoneYet')]_vars
  /\ (<>[](status >= AIO_CONNECTED)) => <>(registered /\ iter >= 1)

C11_Witness ==
  /\ pc = "poll"
  /\ status = 1
  /\ NothingDoneYet

SampleFeeds == {"temperature", "humidity"}
ApiFeeds    == {"api_temp", "api_humidity"}
\* in the saves of the iteration every sensor save comes before every weather save
SampleSavesFirst ==
  \A i, j \in 1..Len(pubs) :
    (pubs[i][1] \in SampleFeeds /\ pubs[j][1] \in ApiFeeds) => i < j

\* C12: every iteration is pump, sensor read (with its saves), weather fetch
\* (with its saves), sleep, in this order on every path, with one pump, one
\* read and one fetch; and after each sleep the next iteration begins (up to
\* the number of iterations explored).
C12_FixedStepOrder ==
  /\ [](pc = "delay" =>
          (steps = <<"pump", "read", "fetch">> /\ pumps = 1 /\ reads = 1 /\ gets = 1))
  /\ []((pc = "run" /\ iter >= 1) => steps = <<"pump", "read", "fetch", "sleep">>)
  /\ [](SampleSavesFirst
          /\ (FeedSaves("temperature") # <<>> => (Len(steps) >= 2 /\ steps[2] = "read"))
          /\ (FeedSaves("api_temp") # <<>> => (Len(steps) >= 3 /\ steps[3] = "fetch")))
  /\ [](pc \in {"read", "sensed", "http", "response", "parsed", "end"} =>
          steps = SubSeq(<<"pump", "read", "fetch">>, 1, Len(steps)))
  /\ ((pc = "delay" /\ iter < MaxIter) ~> (pc = "pump" /\ steps = <<"pump">>))

C12_Witness ==
  /\ pc = "run"
  /\ iter = 2
  /\ steps = <<"pump", "read", "fetch", "sleep">>

\* C13: fire-feed updates are handled in arrival order and the last one wins:
\* the values saved to the alarm feed are, in order, those of the updates the
\* server sent, and outside the callback the flag, the buzzer and the last
\* alarm value are those of the last update delivered; once a pump is over
\* with nothing queued they are those of the last update sent.
C13_ArrivalOrderLastWins ==
  /\ Len(alarmLog) <= Len(sentLog)
  /\ \A i \in 1..Len(alarmLog) : alarmLog[i] = (IF sentLog[i] THEN 1 ELSE 0)
  /\ (CallbackIdle /\ delivered > 0) =>
        /\ Len(alarmLog) = delivered
        /\ fireDetected = sentLog[delivered]
        /\ buzzer = (IF sentLog[delivered] THEN 2000 ELSE 0)
  /\ (CallbackIdle /\ pc # "pump" /\ fireQueue = <<>> /\ arrived > 0) =>
        fireDetected = Last(sentLog)

C13_Witness ==
  /\ pc = "read"
  /\ iter = 1
  /\ delivered = 2
  /\ sentLog = <<TRUE, FALSE>>
  /\ alarmLog = <<1, 0>>
  /\ ~fireDetected
  /\ buzzer = 0

InLoopBody == pc \in {"read", "sensed", "http", "response", "parsed", "end", "delay"}

\* C14: fireDetected is written by fireChanged only, at its entry inside the
\* pump; the sensor read, the weather fetch, the saves and the sleep leave the
\* flag, the buzzer and the alarm feed as they are, and the alarm feed gets a
\* value only from the callback, never more than one per delivery.
C14_SingleWriter ==
  /\ [][ /\ (fireDetected' # fireDetected) =>
              (pc = "pump" /\ cbpc = "idle" /\ cbpc' = "save" /\ delivered' = delivered + 1)
         /\ (alarmLog' # alarmLog) => (cbpc = "save" /\ cbpc' = "tone")
         /\ (buzzer' # buzzer) => (cbpc = "tone" /\ cbpc' = "idle")
         /\ InLoopBody => UNCHANGED <<fireDetected, buzzer, alarmLog>>
       ]_vars
  /\ [](Len(alarmLog) <= delivered)

C14_Witness ==
  /\ pc = "run"
  /\ iter = 2
  /\ arrived = 1
  /\ delivered = 1
  /\ alarmLog = <<1>>
  /\ fireDetected

SampleOk == ~temp.nan /\ ~hum.nan

\* C15: a failure of one source does not suppress the other within the
\* iteration: after a failed sensor read the weather is still fetched and its
\* values saved, and after a failed fetch or parse the valid sample read
\* earlier has been saved to temperature and humidity.
C15_SourcesIndependent ==
  /\ (BodyDone /\ ~SampleOk) =>
        /\ gets = 1
        /\ (ParsedOk /\ payload.doc.temperature # <<>>) =>
              FeedSaves("api_temp") = << <<"api_temp", Num(payload.doc.temperature[1])>> >>
        /\ (ParsedOk /\ payload.doc.hasHumidity /\ payload.doc.relativehumidity_2m # <<>>) =>
              FeedSaves("api_humidity") # <<>>
  /\ (BodyDone /\ SampleOk /\ ~ParsedOk) =>
        /\ FeedSaves("temperature") = << <<"temperature", temp>> >>
        /\ FeedSaves("humidity") = << <<"humidity", hum>> >>

C15_Witness ==
  /\ pc = "delay"
  /\ temp.nan
  /\ ParsedOk
  /\ FeedSaves("api_temp") = << <<"api_temp", Num(18)>> >>
  /\ FeedSaves("api_humidity") = << <<"api_humidity", Num(55)>> >>
  /\ FeedSaves("temperature") = <<>>

\* C16: the loop is fixed-delay: every sleep lasts 10000 ms whatever the body
\* took, so when the next iteration is about to start the time since the start
\* of the previous one is the time spent in the body plus 10000 ms.
C16_FixedDelay ==
  /\ [][(pc = "delay" /\ pc' = "run") =>
          (elapsed' = elapsed + 10000 /\ elapsed = bodyMs /\ bodyMs' = bodyMs)]_vars
  /\ []((pc = "run" /\ iter >= 1) => elapsed = bodyMs + 10000)

C16_Witness ==
  /\ pc = "run"
  /\ iter >= 1
  /\ bodyMs = 3000
  /\ elapsed = 13000

\* C17: every iteration opens one HTTP connection and closes it before the
\* sleep on every path: a connection is open only between the GET and
\* http.end(), none is open at a sleep or at a pump, and a GET always starts
\* from a closed connection.
C17_OneConnectionPerIteration ==
  /\ [](httpOpen => pc \in {"response", "parsed", "end"})
  /\ [](pc = "delay" => (~httpOpen /\ gets = 1))
  /\ [](pc \in {"response", "parsed", "end"} => (httpOpen /\ gets = 1))
  /\ [][(gets' # gets /\ gets' # 0) => (~httpOpen /\ httpOpen' /\ gets' = gets + 1)]_vars

C17_Witness ==
  /\ pc = "delay"
  /\ iter = 2
  /\ ~httpOpen
  /\ gets = 1
  /\ httpCode = 200
  /\ ~payload.json

\* C18: at every iteration boundary as many saves have been made to the
\* temperature feed as to the humidity feed, and at no time have more saves
\* been made to api_humidity than to api_temp.
C18_BalancedSaves ==
  /\ pc \in {"run", "pump", "delay"} =>
        (tempLead = 0 /\ Len(FeedSaves("temperature")) = Len(FeedSaves("humidity")))
  /\ apiLead >= 0
  /\ Len(FeedSaves("api_humidity")) <= Len(FeedSaves("api_temp"))

C18_Witness ==
  /\ pc = "delay"
  /\ iter = 2
  /\ apiLead = 1
  /\ tempLead = 0
  /\ FeedSaves("temperature") # <<>>
  /\ FeedSaves("api_humidity") # <<>>

\* C19: once the main loop is running, every fire-feed update queued on the
\* channel is eventually delivered and shown on the buzzer and the alarm feed
\* (as long as a pump is still to come within the iterations explored): the
\* queue is eventually empty with every update sent so far handled; and it is
\* delivered by the next pump: no pump ends with an update still queued.
C19_UpdatesDelivered ==
  /\ (registered /\ fireQueue # <<>> /\ (iter < MaxIter \/ pc = "pump"))
       ~> (CallbackIdle /\ fireQueue = <<>> /\ sentLog # <<>> /\ delivered = arrived
             /\ Len(alarmLog) = arrived /\ drives = arrived
             /\ fireDetected = Last(sentLog)
             /\ buzzer = (IF Last(sentLog) THEN 2000 ELSE 0))
  /\ [][(pc = "pump" /\ pc' # "pump") =>
          (fireQueue' = <<>> /\ delivered' = arrived' /\ cbpc' = "idle")]_vars

C19_Witness ==
  /\ pc = "delay"
  /\ iter = 1
  /\ registered
  /\ delivered = 1
  /\ drives = 1
  /\ fireQueue # <<>>

====
